---- MODULE Spec2Model ----
(***************************************************************************)
(* A model of codecrafters-grep-rust: the pattern parser                   *)
(* (src/src/regex_parser.rs), the matcher tree with its evaluator          *)
(* (src/src/matcher.rs) and the drivers that read lines, print and exit    *)
(* (src/src/lib.rs, src/src/main.rs).                                      *)
(*                                                                         *)
(* A Rust `String`/`&str` is modelled as a sequence of characters, each    *)
(* character a TLA+ string.  Option<T> is a sequence of length 0 (None) or *)
(* 1 (Some).  A HashMap<usize, V> is a function with a finite domain.      *)
(***************************************************************************)
EXTENDS Integers, Sequences, FiniteSets, TLC

(***************************************************************************)
(* Characters.  Ouml stands for the code point U+00F6, which takes two     *)
(* bytes in UTF-8; every other character of the model is ASCII.            *)
(***************************************************************************)
Ouml == "U+00F6"

len_utf8(c) == IF c = Ouml THEN 2 ELSE 1

\* str::len(): the length of a string in bytes.
RECURSIVE str_len(_)
str_len(s) == IF s = <<>> THEN 0 ELSE len_utf8(Head(s)) + str_len(Tail(s))

\* str::chars().count(): the length of a string in code points.
chars_count(s) == Len(s)

Digits == <<"0", "1", "2", "3", "4", "5", "6", "7", "8", "9">>

is_ascii_digit(c) == \E i \in 1..Len(Digits) : Digits[i] = c

to_digit(c) == (CHOOSE i \in 1..Len(Digits) : Digits[i] = c) - 1

\* str::starts_with
starts_with(s, prefix) ==
    /\ Len(prefix) <= Len(s)
    /\ SubSeq(s, 1, Len(prefix)) = prefix

\* Iterator::skip(n) on the characters of s.
skip(s, n) == SubSeq(s, n + 1, Len(s))

(***************************************************************************)
(* enum Matcher and its constructors.                                      *)
(***************************************************************************)
new_single_char(c) == [kind |-> "SingleChar", ch |-> c]

new_start == [kind |-> "StartMatcher"]

new_end == [kind |-> "EndMatcher"]

new_single_char_branch(chars, negated) ==
    [kind |-> "SingleCharBranch", chars |-> chars, negated |-> negated]

Multiple(matcher, min, max, follow) ==
    [kind |-> "Multiple", matcher |-> matcher, min |-> min, max |-> max,
     follow |-> follow]

new_one_or_more(matcher, follow) == Multiple(matcher, 1, <<>>, follow)

new_zero_or_more(matcher, follow) == Multiple(matcher, 0, <<>>, follow)

new_zero_or_one(matcher) == Multiple(matcher, 0, <<1>>, <<>>)

new_wildcard == [kind |-> "Wildcard"]

new_group(matchers, group_idx) ==
    [kind |-> "Group", alts |-> matchers, idx |-> group_idx]

new_group_reference(group_idx) == [kind |-> "GroupReference", idx |-> group_idx]

Sequence(matchers) == [kind |-> "Sequence", elems |-> matchers]

make_digit_matcher == new_single_char_branch(Digits, FALSE)

make_alpha_num_matcher ==
    new_single_char_branch(
        <<"a", "b", "c", "d", "e", "f", "g", "h", "i", "j", "k", "l", "m",
          "n", "o", "p", "q", "r", "s", "t", "u", "v", "w", "x", "y", "z",
          "A", "B", "C", "D", "E", "F", "G", "H", "I", "J", "K", "L", "M",
          "N", "O", "P", "Q", "R", "S", "T", "U", "V", "W", "X", "Y", "Z">>
        \o Digits \o <<"_">>, FALSE)

(***************************************************************************)
(* Sequence construction: merging and follow wiring.                       *)
(***************************************************************************)
is_mergeable_with(p, other) ==
    IF p.kind = "Multiple" /\ other.kind = "Multiple"
    THEN p.matcher = other.matcher
    ELSE IF p.kind = "Multiple"
    THEN p.matcher = other
    ELSE FALSE

\* merge_with with the mins added and the max of p kept as it is.
merge_with_max_kept(p, other) ==
    Multiple(p.matcher,
             p.min + (IF other.kind = "Multiple" THEN other.min ELSE 1),
             p.max, <<>>)

\* Called only when is_mergeable_with(p, other), so the panics are unreachable.
merge_with(p, other) ==
    IF other.kind = "Multiple"
    THEN Multiple(p.matcher, p.min + other.min,
                  IF p.max /= <<>> /\ other.max /= <<>>
                  THEN <<p.max[1] + other.max[1]>> ELSE <<>>,
                  <<>>)
    ELSE Multiple(p.matcher, p.min + 1,
                  IF p.max /= <<>> THEN <<p.max[1] + 1>> ELSE <<>>,
                  <<>>)

RECURSIVE can_have_follow(_)
can_have_follow(m) ==
    IF m.kind = "Multiple" THEN TRUE
    ELSE IF m.kind = "Group" THEN can_have_follow(m.alts[Len(m.alts)])
    ELSE FALSE

\* Called only when can_have_follow(m), so the panic is unreachable.
RECURSIVE set_follow(_, _)
set_follow(m, follow) ==
    IF m.kind = "Multiple"
    THEN Multiple(m.matcher, m.min, m.max, <<follow>>)
    ELSE new_group(SubSeq(m.alts, 1, Len(m.alts) - 1)
                       \o <<set_follow(m.alts[Len(m.alts)], follow)>>,
                   m.idx)

\* The `for matcher in matchers` loop of new_sequence, from element i on.
RECURSIVE new_sequence_loop(_, _, _, _)
new_sequence_loop(matchers, i, new_matchers, pending) ==
    IF i > Len(matchers)
    THEN new_matchers \o pending
    ELSE LET matcher == matchers[i] IN
         IF pending = <<>>
         THEN new_sequence_loop(matchers, i + 1, new_matchers, <<matcher>>)
         ELSE LET p == pending[1] IN
              IF is_mergeable_with(p, matcher)
              THEN new_sequence_loop(matchers, i + 1, new_matchers,
                                     <<merge_with(p, matcher)>>)
              ELSE new_sequence_loop(matchers, i + 1,
                       Append(new_matchers,
                              IF ~can_have_follow(p) THEN p
                              ELSE set_follow(p, matcher)),
                       <<matcher>>)

new_sequence(matchers) == Sequence(new_sequence_loop(matchers, 1, <<>>, <<>>))

(***************************************************************************)
(* struct Match.                                                           *)
(***************************************************************************)
EmptyMap == <<>>

Match_new(matched_text, offset) ==
    [matched_text |-> matched_text, offset |-> offset, sub_matches |-> EmptyMap]

accumulate(m, other) ==
    [m EXCEPT !.matched_text = @ \o other.matched_text,
              !.sub_matches =
                  [k \in DOMAIN m.sub_matches \cup DOMAIN other.sub_matches |->
                      IF k \in DOMAIN other.sub_matches
                      THEN other.sub_matches[k] ELSE m.sub_matches[k]]]

\* update_group_results with the insertions left out: no capture is passed on.
update_group_results_dropped(group_results, m) == group_results

update_group_results(group_results, m) ==
    [k \in DOMAIN group_results \cup DOMAIN m.sub_matches |->
        IF k \in DOMAIN m.sub_matches
        THEN m.sub_matches[k].matched_text ELSE group_results[k]]

(***************************************************************************)
(* The evaluator.  A call returns Option<Match>, or does not return: the   *)
(* loop of check_multiple has no exit when max is None and an iteration    *)
(* leaves curr_offset and curr_groups as they were (count is then the only *)
(* thing that changes, and with min reached nothing reads it).  Hang is    *)
(* that outcome; a caller of a call that hangs hangs too.                  *)
(***************************************************************************)
None == [tag |-> "None"]

Some(m) == [tag |-> "Some", m |-> m]

Hang == [tag |-> "Hang"]

check_single_char(ch, text, offset) ==
    IF offset >= chars_count(text) THEN None
    ELSE IF text[offset + 1] = ch THEN Some(Match_new(<<ch>>, offset))
    ELSE None

check_start(text, offset) ==
    IF offset = 0 THEN Some(Match_new(<<>>, offset)) ELSE None

check_end(text, offset) ==
    IF offset = str_len(text) THEN Some(Match_new(<<>>, offset)) ELSE None

check_single_char_branch(characters, is_negated, text, offset) ==
    IF offset >= chars_count(text) THEN None
    ELSE LET ch == text[offset + 1]
             listed == \E i \in 1..Len(characters) : characters[i] = ch
         IN IF listed /= is_negated THEN Some(Match_new(<<ch>>, offset))
            ELSE None

check_wildcard(text, offset) ==
    IF offset >= chars_count(text) THEN None
    ELSE Some(Match_new(<<text[offset + 1]>>, offset))

\* check_group_reference with the capture looked for at the start of the
\* text, not at the offset.
check_group_reference_at_start(group_idx, text, offset, group_results) ==
    IF group_idx \in DOMAIN group_results
    THEN LET matched == group_results[group_idx] IN
         IF starts_with(text, matched)
         THEN Some(Match_new(matched, offset))
         ELSE None
    ELSE None

check_group_reference(group_idx, text, offset, group_results) ==
    IF group_idx \in DOMAIN group_results
    THEN LET matched == group_results[group_idx] IN
         IF starts_with(skip(text, offset), matched)
         THEN Some(Match_new(matched, offset))
         ELSE None
    ELSE None

\* group_match with the group's match made at offset 0.
group_match_at_zero(m, group_idx, offset) ==
    LET gm == accumulate(Match_new(<<>>, 0), m) IN
    [gm EXCEPT !.sub_matches =
        [k \in DOMAIN gm.sub_matches \cup {group_idx} |->
            IF k = group_idx THEN gm ELSE gm.sub_matches[k]]]

\* The Match check_group returns when an alternative has matched with m:
\* group_match, which also goes, as it is then, into its own sub_matches.
group_match(m, group_idx, offset) ==
    LET gm == accumulate(Match_new(<<>>, offset), m) IN
    [gm EXCEPT !.sub_matches =
        [k \in DOMAIN gm.sub_matches \cup {group_idx} |->
            IF k = group_idx THEN gm ELSE gm.sub_matches[k]]]

RECURSIVE check_match(_, _, _, _)
RECURSIVE check_sequence_loop(_, _, _, _, _, _)
RECURSIVE check_multiple_loop(_, _, _, _, _, _, _, _, _)
RECURSIVE check_group_loop(_, _, _, _, _, _)
RECURSIVE find_match_from(_, _, _)

\* The `for element in elements` loop of check_sequence, from element i on.
check_sequence_loop(elements, i, text, curr_offset, curr_groups, m) ==
    IF i > Len(elements) THEN Some(m)
    ELSE LET r == check_match(elements[i], text, curr_offset, curr_groups) IN
         IF r.tag = "Some"
         THEN check_sequence_loop(elements, i + 1, text,
                  curr_offset + chars_count(r.m.matched_text),
                  update_group_results(curr_groups, r.m),
                  accumulate(m, r.m))
         ELSE r

check_sequence(elements, text, offset, group_results) ==
    check_sequence_loop(elements, 1, text, offset, group_results,
                        Match_new(<<>>, offset))

\* matches(): find_match(text).is_some(), or no return.
matches(matcher, text) == find_match_from(matcher, text, 0).tag

\* One iteration of the `loop` of check_multiple and the iterations after it.
check_multiple_loop(matcher, min, max, follow, text, curr_offset, m, curr_groups, count) ==
    LET min_reached == count >= min
        max_reached == IF max /= <<>> THEN count >= max[1] ELSE TRUE
        r == check_match(matcher, text, curr_offset, curr_groups)
    IN
    IF r.tag = "Hang" THEN Hang
    ELSE IF r.tag = "None" THEN (IF min_reached THEN Some(m) ELSE None)
    ELSE LET other == r.m
             stop == IF min_reached /\ max_reached /\ follow /= <<>>
                     THEN matches(follow[1], other.matched_text)
                     ELSE "None"
             m2 == accumulate(m, other)
             offset2 == curr_offset + chars_count(other.matched_text)
             groups2 == update_group_results(curr_groups, other)
             count2 == count + 1
         IN
         IF stop = "Hang" THEN Hang
         ELSE IF stop = "Some" THEN Some(m)
         ELSE IF max /= <<>> /\ count2 >= max[1] THEN Some(m2)
         ELSE IF /\ max = <<>>
                 /\ min_reached
                 /\ offset2 = curr_offset
                 /\ groups2 = curr_groups
              THEN Hang
         ELSE check_multiple_loop(matcher, min, max, follow, text, offset2,
                                  m2, groups2, count2)

check_multiple(matcher, min, max, follow, text, offset, group_results) ==
    check_multiple_loop(matcher, min, max, follow, text, offset,
                        Match_new(<<>>, offset), group_results, 0)

\* The `for matcher in matchers` loop of check_group, from alternative i on.
check_group_loop(matchers, i, group_idx, text, offset, group_results) ==
    IF i > Len(matchers) THEN None
    ELSE LET r == check_match(matchers[i], text, offset, group_results) IN
         IF r.tag = "Hang" THEN Hang
         ELSE IF r.tag = "Some"
         THEN Some(group_match(r.m, group_idx, offset))
         ELSE check_group_loop(matchers, i + 1, group_idx, text, offset,
                               group_results)

\* check_group with the alternatives tried from the last to the first.
check_group_last_first(matchers, group_idx, text, offset, group_results) ==
    check_group_loop([i \in 1..Len(matchers) |-> matchers[Len(matchers) + 1 - i]],
                     1, group_idx, text, offset, group_results)

check_group(matchers, group_idx, text, offset, group_results) ==
    check_group_loop(matchers, 1, group_idx, text, offset, group_results)

check_match(self, text, offset, group_results) ==
    CASE self.kind = "SingleChar" -> check_single_char(self.ch, text, offset)
      [] self.kind = "StartMatcher" -> check_start(text, offset)
      [] self.kind = "EndMatcher" -> check_end(text, offset)
      [] self.kind = "SingleCharBranch" ->
             check_single_char_branch(self.chars, self.negated, text, offset)
      [] self.kind = "Sequence" ->
             check_sequence(self.elems, text, offset, group_results)
      [] self.kind = "Multiple" ->
             check_multiple(self.matcher, self.min, self.max, self.follow,
                            text, offset, group_results)
      [] self.kind = "Wildcard" -> check_wildcard(text, offset)
      [] self.kind = "Group" ->
             check_group(self.alts, self.idx, text, offset, group_results)
      [] self.kind = "GroupReference" ->
             check_group_reference(self.idx, text, offset, group_results)

\* The `for offset in 0..text.chars().count()` loop of find_match, from
\* `offset` on: the range excludes its upper end.
find_match_from(self, text, offset) ==
    IF offset >= chars_count(text) THEN None
    ELSE LET r == check_match(self, text, offset, EmptyMap) IN
         IF r.tag = "None" THEN find_match_from(self, text, offset + 1)
         ELSE r

find_match(self, text) == find_match_from(self, text, 0)

(***************************************************************************)
(* struct RegexParser { pattern, index, next_group_idx }.  A parser state  *)
(* of the model also holds `matchers`, the local vector of parse(), and    *)
(* `err`, set when parse() has returned Err.                               *)
(***************************************************************************)
new_with_next_group_idx(pattern, next_group_idx) ==
    [pattern |-> pattern, index |-> 0, next_group_idx |-> next_group_idx,
     matchers |-> <<>>, err |-> FALSE]

RegexParser_new(pattern) == new_with_next_group_idx(pattern, 1)

\* peek(): Option<char>
peek(st) ==
    IF st.index >= Len(st.pattern) THEN <<>> ELSE <<st.pattern[st.index + 1]>>

\* peek_nth(n): Option<char>
peek_nth(st, n) ==
    IF st.index + n >= Len(st.pattern) THEN <<>>
    ELSE <<st.pattern[st.index + n + 1]>>

ParseErr(st) == [st EXCEPT !.err = TRUE]

\* str::parse::<usize>() of a string of ASCII digits; Err on the empty string.
RECURSIVE parse_usize(_)
parse_usize(digits) ==
    IF digits = <<>> THEN 0
    ELSE 10 * parse_usize(SubSeq(digits, 1, Len(digits) - 1))
         + to_digit(digits[Len(digits)])

\* The `loop` of parse_quantifiers, with self.index = index.
RECURSIVE parse_quantifiers_loop(_, _, _)
parse_quantifiers_loop(pattern, index, min_str) ==
    IF index >= Len(pattern) THEN [ok |-> FALSE]
    ELSE LET ch == pattern[index + 1] IN
         IF is_ascii_digit(ch)
         THEN parse_quantifiers_loop(pattern, index + 1, Append(min_str, ch))
         ELSE IF ch = "}"
         THEN IF min_str = <<>> THEN [ok |-> FALSE]
              ELSE [ok |-> TRUE, min |-> parse_usize(min_str),
                    max |-> <<parse_usize(min_str)>>, index |-> index + 1]
         ELSE [ok |-> FALSE]

\* Called with pattern[index] = '{', so the first advance() succeeds.
parse_quantifiers(pattern, index) ==
    parse_quantifiers_loop(pattern, index + 1, <<>>)

\* The `loop` of parse_group_matcher, with self.index = index.
RECURSIVE parse_group_matcher_loop(_, _, _, _)
parse_group_matcher_loop(pattern, index, characters, is_negated) ==
    IF index >= Len(pattern) THEN [ok |-> FALSE]
    ELSE LET ch == pattern[index + 1] IN
         IF ch = "]"
         THEN [ok |-> TRUE, index |-> index + 1,
               matcher |-> new_single_char_branch(characters, is_negated)]
         ELSE parse_group_matcher_loop(pattern, index + 1,
                                       Append(characters, ch), is_negated)

\* Called with pattern[index] = '[', so the first advance() succeeds.
parse_group_matcher(pattern, index) ==
    IF index + 1 >= Len(pattern) THEN [ok |-> FALSE]
    ELSE LET ch == pattern[index + 2] IN
         parse_group_matcher_loop(pattern, index + 2,
                                  IF ch = "^" THEN <<>> ELSE <<ch>>,
                                  ch = "^")

\* The `for (idx, ch)` loop of split_alternation over pattern[index..].
RECURSIVE split_alternation_loop(_, _, _, _, _, _)
split_alternation_loop(pattern, index, idx, segments, segment, level) ==
    IF index + idx >= Len(pattern)
    THEN \* the loop ran out: level /= 0 here, the pattern starting with '('
         [ok |-> FALSE]
    ELSE LET ch == pattern[index + idx + 1] IN
         IF ch = "(" /\ level = 0
         THEN split_alternation_loop(pattern, index, idx + 1, segments,
                                     segment, 1)
         ELSE IF ch = "("
         THEN split_alternation_loop(pattern, index, idx + 1, segments,
                                     Append(segment, ch), level + 1)
         ELSE IF ch = ")" /\ level = 1
         THEN IF segment = <<>> THEN [ok |-> FALSE]
              ELSE [ok |-> TRUE, segments |-> Append(segments, segment),
                    consumed_len |-> idx + 1]
         ELSE IF ch = ")"
         THEN split_alternation_loop(pattern, index, idx + 1, segments,
                                     Append(segment, ch), level - 1)
         ELSE IF ch = "|" /\ level = 1
         THEN IF segment = <<>> THEN [ok |-> FALSE]
              ELSE split_alternation_loop(pattern, index, idx + 1,
                       Append(segments, segment), <<>>, level)
         ELSE split_alternation_loop(pattern, index, idx + 1, segments,
                                     Append(segment, ch), level)

split_alternation(pattern, index) ==
    split_alternation_loop(pattern, index, 0, <<>>, <<>>, 0)

RECURSIVE parse_step(_)
RECURSIVE parse_loop(_)
RECURSIVE parse(_, _)
RECURSIVE parse_group_loop(_, _, _, _)

\* The `for segment in &segments` loop of parse_group, from segment i on.
parse_group_loop(segments, i, matchers, next_group_idx) ==
    IF i > Len(segments)
    THEN [ok |-> TRUE, matchers |-> matchers,
          next_group_idx |-> next_group_idx]
    ELSE LET r == parse(segments[i], next_group_idx) IN
         IF ~r.ok THEN [ok |-> FALSE]
         ELSE parse_group_loop(segments, i + 1, Append(matchers, r.matcher),
                               r.next_group_idx)

\* parse_group_idx with the index incremented before the group takes it.
parse_group_idx_incremented_first(next_group_idx) ==
    [group_idx |-> next_group_idx + 1, next_group_idx |-> next_group_idx + 1]

\* The index a group takes and the index the parser goes on with.
parse_group_idx(next_group_idx) ==
    [group_idx |-> next_group_idx, next_group_idx |-> next_group_idx + 1]

parse_group(st) ==
    LET s == split_alternation(st.pattern, st.index) IN
    IF ~s.ok THEN [ok |-> FALSE]
    ELSE LET g == parse_group_idx(st.next_group_idx)
             r == parse_group_loop(s.segments, 1, <<>>, g.next_group_idx)
         IN IF ~r.ok THEN [ok |-> FALSE]
            ELSE [ok |-> TRUE, index |-> st.index + s.consumed_len,
                  next_group_idx |-> r.next_group_idx,
                  matcher |-> new_group(r.matchers, g.group_idx)]

\* Whether `\k` is rejected, k the digit after the backslash.
invalid_group_index(group_idx, next_group_idx) == group_idx >= next_group_idx

\* The '\\' arm of parse(): Option<Matcher>, None for `return Err(..)`.
parse_escape(st) ==
    LET next == peek_nth(st, 1) IN
    IF next = <<>> THEN <<>>
    ELSE LET next_ch == next[1] IN
         IF next_ch = "d" THEN <<make_digit_matcher>>
         ELSE IF next_ch = "w" THEN <<make_alpha_num_matcher>>
         ELSE IF next_ch \in {"\\", "+", "?", ".", "[", "("}
         THEN <<new_single_char(next_ch)>>
         ELSE IF is_ascii_digit(next_ch)
         THEN IF invalid_group_index(to_digit(next_ch), st.next_group_idx)
              THEN <<>>
              ELSE <<new_group_reference(to_digit(next_ch))>>
         ELSE <<>>

\* The '+', '*', '?' and '{' arms of parse() when `matchers` has a last
\* element: the Multiple that replaces it, with the index after the quantifier.
quantify_last(st, ch) ==
    LET last_matcher == st.matchers[Len(st.matchers)] IN
    IF ch = "+"
    THEN [ok |-> TRUE, index |-> st.index + 1,
          matcher |-> new_one_or_more(last_matcher, <<>>)]
    ELSE IF ch = "*"
    THEN [ok |-> TRUE, index |-> st.index + 1,
          matcher |-> new_zero_or_more(last_matcher, <<>>)]
    ELSE IF ch = "?"
    THEN [ok |-> TRUE, index |-> st.index + 1,
          matcher |-> new_zero_or_one(last_matcher)]
    ELSE LET q == parse_quantifiers(st.pattern, st.index) IN
         IF ~q.ok THEN [ok |-> FALSE]
         ELSE [ok |-> TRUE, index |-> q.index,
               matcher |-> Multiple(last_matcher, q.min, q.max, <<>>)]

\* parse_quantifier with a quantifier that has no atom before it taken as a
\* literal character.
parse_quantifier_literal(st, ch) ==
    IF st.matchers = <<>>
    THEN [ok |-> TRUE, index |-> st.index + 1, matcher |-> new_single_char(ch)]
    ELSE quantify_last(st, ch)

\* The '+', '*', '?' and '{' arms of parse(): Err when `matchers` is empty.
parse_quantifier(st, ch) ==
    IF st.matchers = <<>> THEN [ok |-> FALSE] ELSE quantify_last(st, ch)

IsQuantifier(ch) == ch \in {"+", "*", "?", "{"}

\* matchers.pop(); matchers.push(matcher)
replace_last(matchers, matcher) ==
    Append(SubSeq(matchers, 1, Len(matchers) - 1), matcher)

\* One iteration of the `while let Some(ch) = self.peek()` loop of parse().
parse_step(st) ==
    LET ch == st.pattern[st.index + 1] IN
    IF ch = "\\"
    THEN LET e == parse_escape(st) IN
         IF e = <<>> THEN ParseErr(st)
         ELSE [st EXCEPT !.index = @ + 2, !.matchers = Append(@, e[1])]
    ELSE IF ch = "["
    THEN LET c == parse_group_matcher(st.pattern, st.index) IN
         IF ~c.ok THEN ParseErr(st)
         ELSE [st EXCEPT !.index = c.index, !.matchers = Append(@, c.matcher)]
    ELSE IF ch = "("
    THEN LET g == parse_group(st) IN
         IF ~g.ok THEN ParseErr(st)
         ELSE [st EXCEPT !.index = g.index,
                         !.next_group_idx = g.next_group_idx,
                         !.matchers = Append(@, g.matcher)]
    ELSE IF ch = "^"
    THEN [st EXCEPT !.index = @ + 1, !.matchers = Append(@, new_start)]
    ELSE IF ch = "$"
    THEN [st EXCEPT !.index = @ + 1, !.matchers = Append(@, new_end)]
    ELSE IF IsQuantifier(ch)
    THEN LET q == parse_quantifier(st, ch) IN
         IF ~q.ok THEN ParseErr(st)
         ELSE [st EXCEPT !.index = q.index,
                         !.matchers = replace_last(@, q.matcher)]
    ELSE IF ch = "."
    THEN [st EXCEPT !.index = @ + 1, !.matchers = Append(@, new_wildcard)]
    ELSE [st EXCEPT !.index = @ + 1, !.matchers = Append(@, new_single_char(ch))]

\* The `match matchers.len()` at the end of parse(): Option<Matcher>.
parse_result(matchers) ==
    IF Len(matchers) = 0 THEN <<>>
    ELSE IF Len(matchers) = 1 THEN <<matchers[1]>>
    ELSE <<new_sequence(matchers)>>

parse_loop(st) ==
    IF st.err \/ peek(st) = <<>> THEN st ELSE parse_loop(parse_step(st))

\* parse() of a parser made by new_with_next_group_idx(pattern, next_group_idx).
parse(pattern, next_group_idx) ==
    LET st == parse_loop(new_with_next_group_idx(pattern, next_group_idx)) IN
    IF st.err \/ parse_result(st.matchers) = <<>> THEN [ok |-> FALSE]
    ELSE [ok |-> TRUE, matcher |-> parse_result(st.matchers)[1],
          next_group_idx |-> st.next_group_idx]

(***************************************************************************)
(* The drivers (src/src/lib.rs, src/src/main.rs).  A call that can panic   *)
(* returns Ok(value) or Panic.                                             *)
(***************************************************************************)
Ok(x) == [tag |-> "Ok", val |-> x]

Panic == [tag |-> "Panic"]

\* Matcher::find_all_matches(text) -> Vec<Match>, which match_all calls, is
\* not in matcher.rs.  It is modelled after the specification: the leftmost
\* search, "for offset = 0, 1, ... up to the character length of text", is
\* repeated from the end of the previous match, one character further when
\* that match is empty.  A search that hangs makes the call hang.
RECURSIVE find_all_matches_from(_, _, _)
find_all_matches_from(self, text, offset) ==
    IF offset > chars_count(text) THEN Ok(<<>>)
    ELSE LET r == check_match(self, text, offset, EmptyMap) IN
         IF r.tag = "Hang" THEN Hang
         ELSE IF r.tag = "None"
         THEN find_all_matches_from(self, text, offset + 1)
         ELSE LET end == r.m.offset + chars_count(r.m.matched_text)
                  rest == find_all_matches_from(
                              self, text,
                              IF r.m.matched_text = <<>> THEN end + 1 ELSE end)
              IN IF rest.tag = "Hang" THEN Hang
                 ELSE Ok(<<r.m>> \o rest.val)

find_all_matches(self, text) == find_all_matches_from(self, text, 0)

\* match_all with the error of parse() passed on as a panic.
match_all_unwrapped(input_line, pattern) ==
    LET p == parse(pattern, 1) IN
    IF p.ok THEN find_all_matches(p.matcher, input_line) ELSE Panic

\* lib.rs match_all: Ok(the matches), or Hang.
match_all(input_line, pattern) ==
    LET p == parse(pattern, 1) IN
    IF p.ok THEN find_all_matches(p.matcher, input_line) ELSE Ok(<<>>)

\* The escape sequences colorize_line writes, each one element of a string
\* of the model.
ColorStart == "ESC[1;31m"

ColorReset == "ESC[0m"

\* The number of characters of s before byte index i: Some when i is on a
\* character boundary of s, None when it is in a character or past the end.
char_boundary(s, i) ==
    LET ks == {k \in 0..Len(s) : str_len(SubSeq(s, 1, k)) = i} IN
    IF ks = {} THEN <<>> ELSE <<CHOOSE k \in ks : TRUE>>

\* &s[from..to], the indices in bytes: panics unless from <= to and both are
\* on character boundaries of s.
str_index(s, from, to) ==
    IF from > to \/ char_boundary(s, from) = <<>> \/ char_boundary(s, to) = <<>>
    THEN Panic
    ELSE Ok(SubSeq(s, char_boundary(s, from)[1] + 1, char_boundary(s, to)[1]))

\* The loop of colorize_line from its i-th match on, and the push_str after
\* it.
RECURSIVE colorize_loop(_, _, _, _, _)
colorize_loop(line, ms, i, colored_line, last_index) ==
    IF i > Len(ms)
    THEN LET rest == str_index(line, last_index, str_len(line)) IN
         IF rest = Panic THEN Panic ELSE Ok(colored_line \o rest.val)
    ELSE LET start == ms[i].offset
             end == start + str_len(ms[i].matched_text)
             before == str_index(line, last_index, start)
             inside == str_index(line, start, end)
         IN IF before = Panic \/ inside = Panic THEN Panic
            ELSE colorize_loop(line, ms, i + 1,
                               colored_line \o before.val \o <<ColorStart>>
                                   \o inside.val \o <<ColorReset>>,
                               end)

colorize_line(line, ms, color_mode) ==
    IF color_mode = "Always"
    THEN colorize_loop(line, ms, 1, <<>>, 0)
    ELSE Ok(line)

\* main.rs: str::contains, for a string and for a character.
contains(s, sub) ==
    \E i \in 0..(Len(s) - Len(sub)) : SubSeq(s, i + 1, i + Len(sub)) = sub

AlphaNums ==
    <<"a", "b", "c", "d", "e", "f", "g", "h", "i", "j", "k", "l", "m",
      "n", "o", "p", "q", "r", "s", "t", "u", "v", "w", "x", "y", "z",
      "A", "B", "C", "D", "E", "F", "G", "H", "I", "J", "K", "L", "M",
      "N", "O", "P", "Q", "R", "S", "T", "U", "V", "W", "X", "Y", "Z">>
    \o Digits \o <<"_">>

any_contained(chars, input_line) ==
    \E i \in 1..Len(chars) : contains(input_line, <<chars[i]>>)

match_single_digit(input_line) == any_contained(Digits, input_line)

match_alphanumeric(input_line) == any_contained(AlphaNums, input_line)

\* Iterator::take(n) on the characters of s.
take(s, n) == SubSeq(s, 1, IF n <= Len(s) THEN n ELSE Len(s))

\* main.rs match_group.  The subtraction of 3 from the length of the line
\* is in usize: below zero it panics in a build with overflow checks and
\* wraps around, to more than any pattern has, in a build without.
match_group(input_line, pattern, overflow_checks) ==
    IF chars_count(pattern) < 2 THEN Ok(FALSE)
    ELSE IF pattern[2] /= "^"
    THEN Ok(any_contained(take(skip(pattern, 1), chars_count(pattern) - 2),
                          input_line))
    ELSE IF chars_count(input_line) >= 3
    THEN Ok(~any_contained(take(skip(pattern, 2), chars_count(input_line) - 3),
                           input_line))
    ELSE IF overflow_checks THEN Panic
    ELSE Ok(~any_contained(skip(pattern, 2), input_line))

\* main.rs match_pattern.
match_pattern(input_line, pattern, overflow_checks) ==
    IF chars_count(pattern) = 1 THEN Ok(contains(input_line, pattern))
    ELSE IF pattern = <<"\\", "d">> THEN Ok(match_single_digit(input_line))
    ELSE IF pattern = <<"\\", "w">> THEN Ok(match_alphanumeric(input_line))
    ELSE IF pattern /= <<>> /\ pattern[1] = "["
    THEN match_group(input_line, pattern, overflow_checks)
    ELSE Panic

(***************************************************************************)
(* The inputs: the patterns and the texts the program is run on.           *)
(***************************************************************************)
MaxPatLen == 2

MaxTextLen == 3

\* Every string over `alphabet` of length at most n.
RECURSIVE Strings(_, _)
Strings(alphabet, n) ==
    IF n = 0 THEN {<<>>}
    ELSE LET shorter == Strings(alphabet, n - 1) IN
         shorter \cup {Append(s, c) : s \in shorter, c \in alphabet}

TextChars == {"a", "1", Ouml}

Texts == Strings(TextChars, MaxTextLen)

PatternChars ==
    {"a", "1", "0", Ouml, ".", "^", "$", "+", "*", "?", "(", ")", "\\"}

\* Patterns longer than MaxPatLen, after the tests of regex_parser.rs and the
\* scenarios of the specification, over the characters of the texts.
LongPatterns ==
    { <<"a", "1", "$">>,                                   \* a1$
      <<"^", "a", "1">>,                                   \* ^a1
      <<"a", Ouml, "$">>,                                  \* a<o-umlaut>$
      <<"1", "a", "+", "a", "1">>,                         \* 1a+a1
      <<".", "+", "a", "1">>,                              \* .+a1
      <<"^", ".", "*", "a", "1">>,                         \* ^.*a1
      <<"^", "a", "{", "0", "}", "1">>,                    \* ^a{0}1
      <<"1", "a", "?", "1">>,                              \* 1a?1
      <<"a", "?", ".">>,                                   \* a?.
      <<".", "*", "a">>,                                   \* .*a
      <<"a", "{", "0", "}", ".">>,                         \* a{0}.
      <<"a", "+", "a">>,                                   \* a+a
      <<"a", "?", "a">>,                                   \* a?a
      <<"a", "*", "a", "+">>,                              \* a*a+
      <<"a", "?", "a", "?", "1">>,                         \* a?a?1
      <<".", "*", ".", "1">>,                              \* .*.1
      <<"a", "1", "*", "a">>,                              \* a1*a
      <<"a", "1", "{", "2", "}", "a">>,                    \* a1{2}a
      <<"a", "{", "0", "}">>,                              \* a{0}
      <<"a", "{", "1", "}", "a">>,                         \* a{1}a
      <<"a", "{", "2", "}", "a", "?">>,                    \* a{2}a?
      <<"a", "{", "1", "0", "}">>,                         \* a{10}
      <<"a", "{", "}">>,                                   \* a{}
      <<"a", "{", "1">>,                                   \* a{1
      <<"{", "1", "}">>,                                   \* {1}
      <<"[", "a", "1", "]", "+">>,                         \* [a1]+
      <<"[", "^", "a", "]", Ouml>>,                        \* [^a]<o-umlaut>
      <<"[", "^", "]">>,                                   \* [^]
      <<"[", "a">>,                                        \* [a
      <<"\\", "d", "a">>,                                  \* \da
      <<"\\", "w", "+", "$">>,                             \* \w+$
      <<"\\", "(", "+">>,                                  \* \(+
      <<"\\", "[", "a">>,                                  \* \[a
      <<"a", "\\", ".", "\\", "\\">>,                        \* a\.\\
      <<"(", "\\", "+", ")">>,                             \* (\+)
      <<"(", "\\", "?", "|", "\\", "[", ")">>,             \* (\?|\[)
      <<"(", "a", "\\", ".", "|", "\\", "\\", ")", "+">>,    \* (a\.|\\)+
      <<"(", "\\", "(", ")">>,                             \* (\()
      <<"(", "a", "|", "\\", "(", "1", ")">>,                \* (a|\(1)
      <<"a", "|", "+">>,                                   \* a|+
      <<"(", "a", "1", "|", "1", "(", "a", "|", Ouml, ")", ")", "a">>,
                                                           \* (a1|1(a|<o-umlaut>))a
      <<"(", "a", "|", "a", "1", ")", "1">>,               \* (a|a1)1
      <<"(", "a", "1", "|", "a", ")", "1">>,               \* (a1|a)1
      <<"(", "a", "|", "a", "1", ")", "$">>,               \* (a|a1)$
      <<"(", "a", "+", ")", "a">>,                         \* (a+)a
      <<"(", "1", "|", "a", "+", ")", "a">>,               \* (1|a+)a
      <<"(", "a", "+", "|", "1", ")", "a">>,               \* (a+|1)a
      <<"(", "1", "a", "+", ")", "a">>,                    \* (1a+)a
      <<"(", "a", "|", "1", ")", "+">>,                    \* (a|1)+
      <<"(", "(", "a", ")", "1", ")", "+">>,               \* ((a)1)+
      <<"(", "(", "a", ")", "|", "1", ")", "+", Ouml, "\\", "2">>,
                                                           \* ((a)|1)+<o-umlaut>\2
      <<"(", "(", "a", ")", "|", "1", ")", "+">>,          \* ((a)|1)+
      <<"(", "\\", "w", "+", ")", Ouml, "\\", "1">>,       \* (\w+)<o-umlaut>\1
      <<"(", ".", ")", "\\", "1">>,                        \* (.)\1
      <<"(", "a", "|", "1", ")", "\\", "1", "$">>,         \* (a|1)\1$
      <<"(", "\\", "d", ")", "(", "a", ")", "\\", "2", "\\", "1">>,
                                                           \* (\d)(a)\2\1
      <<"(", "(", ".", ")", ")", "\\", "2", "\\", "1">>,   \* ((.))\2\1
      <<"(", ".", "(", ".", ")", ")", "\\", "2">>,         \* (.(.))\2
      <<"(", "a", ")", "+", "\\", "1">>,                   \* (a)+\1
      <<"(", "a", "\\", "1", ")">>,                        \* (a\1)
      <<"(", "a", ")", "\\", "2">>,                        \* (a)\2
      <<"(", "a", ")", "\\", "0">>,                        \* (a)\0
      <<"(", "a", ")", "(", "\\", "2", ")">>,              \* (a)(\2)
      <<"(", "a", ")", "(", "\\", "3", ")">>,              \* (a)(\3)
      <<"(", "a", ")", "(", "1", "\\", "1", ")">>,         \* (a)(1\1)
      <<"(", "a", "*", ")", "*">>,                         \* (a*)*
      <<"(", "a", "?", ")", "+", "1">>,                    \* (a?)+1
      <<"(", "^", ")", "*", "a">>,                         \* (^)*a
      <<"(", "+", "a", ")">>,                              \* (+a)
      <<"(", "a", "|", "*", ")">>,                         \* (a|*)
      <<"(", "a", "|", "?", "1", ")">>,                    \* (a|?1)
      <<"(", "(", "{", "1", "}", ")", ")">>,               \* (({1}))
      <<"(", "a", "|", ")">>,                              \* (a|)
      <<"(", "a", ")", "(", "1", ")">>,                    \* (a)(1)
      <<"(", "(", "a", ")", "(", "1", ")", ")">>,          \* ((a)(1))
      <<"(", "a", "|", "(", "1", ")", ")", "(", Ouml, ")">>,
                                                           \* (a|(1))(<o-umlaut>)
      <<"(", "a", ")", "+", "(", "a", ")">>,               \* (a)+(a)
      <<"(", "a", ")", "a", "*", "(", "1", ")">> }         \* (a)a*(1)

Patterns == Strings(PatternChars, MaxPatLen) \cup LongPatterns

(***************************************************************************)
(* The drivers: process_stdin and process_files_or_dirs of lib.rs, and     *)
(* main of main.rs, run on a pattern, a configuration and an input.  The   *)
(* input is a list of files, each a list of lines without their line       *)
(* terminators; the standard input is one file.                            *)
(*   pc = "start"      the driver has been called                          *)
(*        "loop"       in the loop over the files and their lines          *)
(*        "exit"       the process has exited with exit_code[1]            *)
(*        "grep_hung"  match_all is in a loop that has no exit             *)
(***************************************************************************)
MaxLineLen == 2

LineChars == {"a", Ouml}

Lines == Strings(LineChars, MaxLineLen)

\* No line, one line or two lines.
LineLists ==
    {<<>>} \cup {<<l>> : l \in Lines} \cup {<<l1, l2>> : l1, l2 \in Lines}

File(name, readable, lines) ==
    [name |-> name, readable |-> readable, lines |-> lines]

Stdin == {<<File("stdin", TRUE, ls)>> : ls \in LineLists}

\* A file of no line or one line, or one that cannot be read.
ShortFiles(name) ==
    {File(name, TRUE, <<>>), File(name, FALSE, <<>>)}
    \cup {File(name, TRUE, <<l>>) : l \in Lines}

\* No file, one file or two files.
FileLists ==
    {<<>>} \cup {<<File("f1", TRUE, ls)>> : ls \in LineLists}
    \cup {<<File("f1", FALSE, <<>>)>>}
    \cup {<<f1, f2>> : f1 \in ShortFiles("f1"), f2 \in ShortFiles("f2")}

\* struct Config, the entry point that is run with it, and whether the
\* build checks integer overflow.
Config(entry, color, only_matches, extended_regexp, overflow_checks) ==
    [entry |-> entry, color |-> color, only_matches |-> only_matches,
     extended_regexp |-> extended_regexp, overflow_checks |-> overflow_checks]

ColorModes == {"Always", "Auto", "Never"}

Configs ==
    {Config(e, c, o, TRUE, TRUE) :
         e \in {"process_stdin", "process_files_or_dirs"},
         c \in ColorModes, o \in BOOLEAN}
    \cup {Config("main", "Never", FALSE, x, v) : x, v \in BOOLEAN}

\* The patterns the drivers are run with: some that parse() rejects, one on
\* which the evaluator hangs, and some of each kind of matcher.
GrepPatterns ==
    { <<>>,                                                \* (empty)
      <<"(">>,                                             \* (
      <<"+">>,                                             \* +
      <<"\\">>,                                            \* \
      <<"[", "a">>,                                        \* [a
      <<"a", "{">>,                                        \* a{
      <<"(", "a", "|", "*", ")">>,                         \* (a|*)
      <<"^", "*">>,                                        \* ^*
      <<"a">>,                                             \* a
      <<Ouml>>,                                            \* <o-umlaut>
      <<".">>,                                             \* .
      <<"$">>,                                             \* $
      <<"1">>,                                             \* 1
      <<"a", Ouml>>,                                       \* a<o-umlaut>
      <<"a", "a">>,                                        \* aa
      <<"^", "a">>,                                        \* ^a
      <<"a", "$">>,                                        \* a$
      <<"a", "*">>,                                        \* a*
      <<Ouml, "+">>,                                       \* <o-umlaut>+
      <<"a", "?", Ouml>>,                                  \* a?<o-umlaut>
      <<"\\", "d">>,                                       \* \d
      <<"\\", "w">>,                                       \* \w
      <<"[", "a", "1", "]">>,                              \* [a1]
      <<"[", "^", "a", "]">>,                              \* [^a]
      <<"[", "^", Ouml, "1", "]">>,                        \* [^<o-umlaut>1]
      <<"(", "a", "|", Ouml, ")">>,                        \* (a|<o-umlaut>)
      <<"(", ".", ")", "\\", "1">> }                       \* (.)\1

VARIABLES config, files, file_no, line_no, found, stdout, exit_code

driver == <<config, files, file_no, line_no, found, stdout, exit_code>>

(***************************************************************************)
(* The program: RegexParser::new(pattern).parse(), one iteration of the    *)
(* loop of parse() a step, and then find_match(text) on the tree, one      *)
(* offset of its loop a step.                                              *)
(*   pc = "parse"        in the loop of parse()                            *)
(*        "parse_error"  parse() returned Err                              *)
(*        "parsed"       parse() returned Ok(tree[1])                      *)
(*        "find"         in the loop of find_match(text)                   *)
(*        "done"         find_match returned `result`                      *)
(*        "hung"         find_match is in a loop that has no exit          *)
(***************************************************************************)
VARIABLES pattern, index, next_group_idx, matchers, pc, tree, text, offset,
          result

vars == <<pattern, index, next_group_idx, matchers, pc, tree, text, offset,
          result, driver>>

parser == [pattern |-> pattern, index |-> index,
           next_group_idx |-> next_group_idx, matchers |-> matchers,
           err |-> FALSE]

Init ==
    /\ pattern \in Patterns
    /\ index = RegexParser_new(pattern).index
    /\ next_group_idx = RegexParser_new(pattern).next_group_idx
    /\ matchers = RegexParser_new(pattern).matchers
    /\ pc = "parse"
    /\ tree = <<>>
    /\ text = <<>>
    /\ offset = 0
    /\ result = None
    /\ config = Config("none", "Never", FALSE, FALSE, FALSE)
    /\ files = <<>>
    /\ file_no = 0
    /\ line_no = 0
    /\ found = FALSE
    /\ stdout = <<>>
    /\ exit_code = <<>>

\* The assignments of one iteration of the loop of parse(): st is the parser
\* after the iteration.
ParseTo(st) ==
    /\ index' = st.index
    /\ next_group_idx' = st.next_group_idx
    /\ matchers' = st.matchers
    /\ pc' = IF st.err THEN "parse_error" ELSE "parse"
    /\ UNCHANGED <<pattern, tree, text, offset, result, driver>>

\* The '\\' arm.
ParseEscape ==
    /\ pc = "parse"
    /\ peek(parser) = <<"\\">>
    /\ ParseTo(parse_step(parser))

\* The '[' arm.
ParseCharClass ==
    /\ pc = "parse"
    /\ peek(parser) = <<"[">>
    /\ ParseTo(parse_step(parser))

\* The '(' arm.
ParseGroup ==
    /\ pc = "parse"
    /\ peek(parser) = <<"(">>
    /\ ParseTo(parse_step(parser))

\* The '^' and '$' arms.
ParseAnchor ==
    /\ pc = "parse"
    /\ peek(parser) \in {<<"^">>, <<"$">>}
    /\ ParseTo(parse_step(parser))

\* The '+', '*', '?' and '{' arms.
ParseQuantifier ==
    /\ pc = "parse"
    /\ peek(parser) /= <<>>
    /\ IsQuantifier(peek(parser)[1])
    /\ ParseTo(parse_step(parser))

\* The '.' and `_` arms.
ParseChar ==
    /\ pc = "parse"
    /\ peek(parser) /= <<>>
    /\ peek(parser)[1] \notin {"\\", "[", "(", "^", "$"}
    /\ ~IsQuantifier(peek(parser)[1])
    /\ ParseTo(parse_step(parser))

\* The loop of parse() is over: Err on no matcher, else Ok of the tree.
ParseEnd ==
    /\ pc = "parse"
    /\ peek(parser) = <<>>
    /\ tree' = parse_result(matchers)
    /\ pc' = IF parse_result(matchers) = <<>> THEN "parse_error" ELSE "parsed"
    /\ UNCHANGED <<pattern, index, next_group_idx, matchers, text, offset,
                   result, driver>>

\* find_match(text) is called on the tree.
FindStart ==
    /\ pc = "parsed"
    /\ text' \in Texts
    /\ offset' = 0
    /\ pc' = "find"
    /\ UNCHANGED <<pattern, index, next_group_idx, matchers, tree, result,
                   driver>>

\* One iteration of the loop of find_match.
FindTry ==
    /\ pc = "find"
    /\ offset < chars_count(text)
    /\ LET r == check_match(tree[1], text, offset, EmptyMap) IN
       /\ pc' = IF r.tag = "Some" THEN "done"
                ELSE IF r.tag = "Hang" THEN "hung" ELSE "find"
       /\ result' = IF r.tag = "Some" THEN r ELSE result
       /\ offset' = IF r.tag = "None" THEN offset + 1 ELSE offset
    /\ UNCHANGED <<pattern, index, next_group_idx, matchers, tree, text,
                   driver>>

\* The loop of find_match is over: None.
FindEnd ==
    /\ pc = "find"
    /\ offset >= chars_count(text)
    /\ result' = None
    /\ pc' = "done"
    /\ UNCHANGED <<pattern, index, next_group_idx, matchers, tree, text,
                   offset, driver>>

Next ==
    \/ ParseEscape
    \/ ParseCharClass
    \/ ParseGroup
    \/ ParseAnchor
    \/ ParseQuantifier
    \/ ParseChar
    \/ ParseEnd
    \/ FindStart
    \/ FindTry
    \/ FindEnd

Spec == Init /\ [][Next]_vars

(***************************************************************************)
(* The drivers.                                                            *)
(***************************************************************************)
GrepInit ==
    /\ pattern \in GrepPatterns
    /\ index = RegexParser_new(pattern).index
    /\ next_group_idx = RegexParser_new(pattern).next_group_idx
    /\ matchers = RegexParser_new(pattern).matchers
    /\ pc = "start"
    /\ tree = <<>>
    /\ text = <<>>
    /\ offset = 0
    /\ result = None
    /\ config \in Configs
    /\ files \in IF config.entry = "process_files_or_dirs" THEN FileLists
                 ELSE Stdin
    /\ file_no = 0
    /\ line_no = 0
    /\ found = FALSE
    /\ stdout = <<>>
    /\ exit_code = <<>>

regex == <<pattern, index, next_group_idx, matchers, tree, text, offset,
           result>>

\* process::exit(code); a panic ends the process with code 101.
ExitWith(code) ==
    /\ pc' = "exit"
    /\ exit_code' = <<code>>

\* All lines of the file that is open have been processed.
AtEndOfFile ==
    IF file_no = 0 THEN TRUE ELSE line_no = Len(files[file_no].lines)

\* What is printed before a line or a match: `{filename}:` when there are
\* several files.
prefix(name, multiple_files) ==
    IF multiple_files THEN <<name, ":">> ELSE <<>>

\* The lines printed for a line with the matches ms: Ok(lines), or Panic.
print_matches(line, ms, cfg, pre) ==
    IF ~cfg.only_matches
    THEN LET c == colorize_line(line, ms, cfg.color) IN
         IF c = Panic THEN Panic ELSE Ok(<<pre \o c.val>>)
    ELSE Ok([i \in 1..Len(ms) |-> pre \o ms[i].matched_text])

\* process_stdin up to its loop over the lines: all lines are read.
ReadStdin ==
    /\ pc = "start"
    /\ config.entry = "process_stdin"
    /\ file_no' = 1
    /\ line_no' = 0
    /\ pc' = "loop"
    /\ UNCHANGED <<regex, config, files, found, stdout, exit_code>>

\* process_files_or_dirs up to its loop over the files.
ListFiles ==
    /\ pc = "start"
    /\ config.entry = "process_files_or_dirs"
    /\ pc' = "loop"
    /\ UNCHANGED <<regex, driver>>

\* read_to_string(filename).unwrap() on the next file.
ReadFile ==
    /\ pc = "loop"
    /\ config.entry = "process_files_or_dirs"
    /\ AtEndOfFile
    /\ file_no < Len(files)
    /\ IF files[file_no + 1].readable
       THEN /\ file_no' = file_no + 1
            /\ line_no' = 0
            /\ UNCHANGED <<pc, exit_code>>
       ELSE /\ ExitWith(101)
            /\ UNCHANGED <<file_no, line_no>>
    /\ UNCHANGED <<regex, config, files, found, stdout>>

\* One iteration of the loop over the lines, of process_stdin or of
\* process_files_or_dirs.
GrepLine ==
    /\ pc = "loop"
    /\ file_no >= 1
    /\ line_no < Len(files[file_no].lines)
    /\ LET line == files[file_no].lines[line_no + 1]
           r == match_all(line, pattern)
           out == print_matches(line, r.val, config,
                                prefix(files[file_no].name, Len(files) > 1))
       IN IF r = Hang
          THEN /\ pc' = "grep_hung"
               /\ UNCHANGED <<line_no, found, stdout, exit_code>>
          ELSE IF r.val = <<>>
          THEN /\ line_no' = line_no + 1
               /\ UNCHANGED <<pc, found, stdout, exit_code>>
          ELSE IF out = Panic
          THEN /\ found' = TRUE
               /\ ExitWith(101)
               /\ UNCHANGED <<line_no, stdout>>
          ELSE /\ found' = TRUE
               /\ stdout' = stdout \o out.val
               /\ line_no' = line_no + 1
               /\ UNCHANGED <<pc, exit_code>>
    /\ UNCHANGED <<regex, config, files, file_no>>

\* The loops are over: process::exit(if found { 0 } else { 1 }).
Exit ==
    /\ pc = "loop"
    /\ file_no = Len(files)
    /\ AtEndOfFile
    /\ ExitWith(IF found THEN 0 ELSE 1)
    /\ UNCHANGED <<regex, config, files, file_no, line_no, found, stdout>>

\* read_line: the first line of the input with its line terminator, the
\* empty string at the end of the input.
read_line(input) == IF input = <<>> THEN <<>> ELSE input[1] \o <<"\n">>

\* main of main.rs.
Main ==
    /\ pc = "start"
    /\ config.entry = "main"
    /\ IF ~config.extended_regexp
       THEN /\ stdout' = <<<<"Expected first argument to be '-E'">>>>
            /\ ExitWith(1)
       ELSE LET r == match_pattern(read_line(files[1].lines), pattern,
                                   config.overflow_checks)
            IN /\ ExitWith(IF r = Panic THEN 101 ELSE IF r.val THEN 0 ELSE 1)
               /\ UNCHANGED stdout
    /\ UNCHANGED <<regex, config, files, file_no, line_no, found>>

GrepNext ==
    \/ ReadStdin
    \/ ListFiles
    \/ ReadFile
    \/ GrepLine
    \/ Exit
    \/ Main

Grep == GrepInit /\ [][GrepNext]_vars

(***************************************************************************)
(* Reading a tree and a match.                                             *)
(***************************************************************************)
\* The nodes of a tree in source order, a node before the nodes under it.
\* The `follow` of a Multiple is a copy of its next sibling and is left out.
RECURSIVE Walk(_)
RECURSIVE WalkAll(_)
Walk(m) ==
    <<m>> \o (CASE m.kind = "Sequence" -> WalkAll(m.elems)
                [] m.kind = "Group" -> WalkAll(m.alts)
                [] m.kind = "Multiple" -> Walk(m.matcher)
                [] OTHER -> <<>>)

WalkAll(ms) == IF ms = <<>> THEN <<>> ELSE Walk(Head(ms)) \o WalkAll(Tail(ms))

IsGroupNode(m) == m.kind = "Group"

\* The group indices of a tree in the order of the opening parentheses.
GroupIdxs(m) ==
    LET gs == SelectSeq(Walk(m), IsGroupNode) IN
    [i \in 1..Len(gs) |-> gs[i].idx]

\* The characters of t from character index `from`, n of them at most.
Slice(t, from, n) ==
    SubSeq(t, from + 1, IF from + n <= Len(t) THEN from + n ELSE Len(t))

\* A match lies in t where it says it does.
IsSliceOf(m, t) == Slice(t, m.offset, Len(m.matched_text)) = m.matched_text

\* find_match has returned Some.
Found == pc = "done" /\ result.tag = "Some"

\* find_match has just been called: the pattern parsed, the text chosen.
Called == pc = "find" /\ offset = 0

Offsets == 0..Len(text)

(***************************************************************************)
(* C1                                                                      *)
(***************************************************************************)
\* C1: when find_match returns a match m, the characters of the text from
\* character index m.offset, as many as m.matched_text has, are m.matched_text.
C1_MatchedTextIsSlice == Found => IsSliceOf(result.m, text)

\* A match of two or more characters, one of them of two bytes, not at the
\* start of the text.
C1_Witness ==
    /\ Found
    /\ result.m.offset >= 1
    /\ Len(result.m.matched_text) >= 2
    /\ \E i \in 1..Len(result.m.matched_text) : result.m.matched_text[i] = Ouml

(***************************************************************************)
(* C2                                                                      *)
(***************************************************************************)
\* C2: find_match tries the root at every offset 0, 1, ..., Len(text), the
\* last included, and returns the first success: when it has returned, its
\* result is the match at the least such offset where the root succeeds, and
\* None only if there is no such offset (so `^$` matches the empty text).
C2_TriesEveryOffset ==
    pc = "done" =>
        \A o \in Offsets :
            LET r == check_match(tree[1], text, o, EmptyMap) IN
            (r.tag = "Some" /\ \A o2 \in 0..(o - 1) :
                 check_match(tree[1], text, o2, EmptyMap).tag = "None")
            => result = r

(***************************************************************************)
(* C3                                                                      *)
(***************************************************************************)
HasEnd(m) == \E i \in 1..Len(Walk(m)) : Walk(m)[i].kind = "EndMatcher"

\* C3: `$` succeeds, with an empty match, exactly at the offset that is the
\* number of characters of the text, whatever the characters of the text.
C3_EndAtCharCount ==
    (pc \in {"find", "done"} /\ HasEnd(tree[1])) =>
        \A o \in Offsets :
            check_match(new_end, text, o, EmptyMap).tag = "Some" <=> o = Len(text)

(***************************************************************************)
(* C4                                                                      *)
(***************************************************************************)
\* The text group k has captured when a sequence called with the captures g
\* has matched p so far: Option<String>.
Captured(g, p, k) ==
    IF k \in DOMAIN p.sub_matches THEN <<p.sub_matches[k].matched_text>>
    ELSE IF k \in DOMAIN g THEN <<g[k]>>
    ELSE <<>>

\* elems[i] is a GroupReference: after elems[1..i-1] have matched from o,
\* it succeeds iff its group has a capture and the text goes on with it, and
\* it then consumes that capture.
ReferenceReadsCapture(elems, i, o, g) ==
    LET p == check_sequence(SubSeq(elems, 1, i - 1), text, o, g)
        r == check_sequence(SubSeq(elems, 1, i), text, o, g)
    IN p.tag = "Some" =>
       LET cap == Captured(g, p.m, elems[i].idx)
           cur == o + Len(p.m.matched_text)
       IN /\ r.tag = "Some" <=>
                (cap /= <<>> /\ Slice(text, cur, Len(cap[1])) = cap[1])
          /\ r.tag = "Some" => r.m.matched_text = p.m.matched_text \o cap[1]

\* The captures a sequence is called with, in the checks of C4.
SampleGroups == {EmptyMap, [k \in {1} |-> <<"a">>]}

\* C4: in a Sequence, a GroupReference(k) succeeds iff the text at the
\* current offset begins with the text group k captured last, and consumes
\* exactly that; it fails when group k has no capture.  Captures of nested
\* groups made earlier in the sequence are seen.
C4_ReferenceMatchesCapture ==
    Called =>
        \A n \in 1..Len(Walk(tree[1])) :
            LET S == Walk(tree[1])[n] IN
            S.kind = "Sequence" =>
                \A i \in 1..Len(S.elems) :
                    S.elems[i].kind = "GroupReference" =>
                        \A o \in Offsets : \A g \in SampleGroups :
                            ReferenceReadsCapture(S.elems, i, o, g)

\* A match in which a reference to a nested group has consumed a capture
\* that is not empty.
C4_Witness ==
    /\ Found
    /\ tree[1].kind = "Sequence"
    /\ \E i \in 1..Len(tree[1].elems) :
          /\ tree[1].elems[i].kind = "GroupReference"
          /\ tree[1].elems[i].idx >= 2
          /\ tree[1].elems[i].idx \in DOMAIN result.m.sub_matches
          /\ result.m.sub_matches[tree[1].elems[i].idx].matched_text /= <<>>

(***************************************************************************)
(* C5                                                                      *)
(***************************************************************************)
\* The first alternative that does not fail at offset o, 0 if all fail.
FirstAlt(alts, o, g) ==
    IF \A j \in 1..Len(alts) : check_match(alts[j], text, o, g).tag = "None"
    THEN 0
    ELSE CHOOSE j \in 1..Len(alts) :
             /\ check_match(alts[j], text, o, g).tag /= "None"
             /\ \A j2 \in 1..(j - 1) :
                    check_match(alts[j2], text, o, g).tag = "None"

\* The group G matches at o what its first successful alternative matches.
GroupTakesFirst(G, o, g) ==
    LET j == FirstAlt(G.alts, o, g)
        r == check_match(G, text, o, g)
    IN IF j = 0 THEN r = None
       ELSE LET a == check_match(G.alts[j], text, o, g) IN
            a.tag = "Some" =>
                /\ r.tag = "Some"
                /\ r.m.offset = o
                /\ r.m.matched_text = a.m.matched_text
                /\ r.m.sub_matches[G.idx].matched_text = a.m.matched_text

\* elems[i] is a Group: when the rest of the sequence fails after the first
\* successful alternative, the sequence fails.
NoSecondAlternative(elems, i, o) ==
    LET p == check_sequence(SubSeq(elems, 1, i - 1), text, o, EmptyMap) IN
    p.tag = "Some" =>
        LET g == update_group_results(EmptyMap, p.m)
            cur == o + Len(p.m.matched_text)
            j == FirstAlt(elems[i].alts, cur, g)
            a == check_match(elems[i].alts[j], text, cur, g)
        IN (j /= 0 /\ a.tag = "Some") =>
           LET gm == group_match(a.m, elems[i].idx, cur)
               rest == check_sequence(SubSeq(elems, i + 1, Len(elems)), text,
                                      cur + Len(a.m.matched_text),
                                      update_group_results(g, gm))
           IN rest.tag = "None" =>
                  check_sequence(elems, text, o, EmptyMap).tag = "None"

\* C5: a Group tries its alternatives in source order and returns the match
\* of the first that succeeds, not of the longest; no later alternative is
\* tried, also when the rest of the enclosing sequence then fails.
C5_FirstAlternative ==
    Called =>
        \A n \in 1..Len(Walk(tree[1])) :
            LET N == Walk(tree[1])[n] IN
            /\ N.kind = "Group" =>
                   \A o \in Offsets : \A g \in SampleGroups :
                       GroupTakesFirst(N, o, g)
            /\ N.kind = "Sequence" =>
                   \A i \in 1..Len(N.elems) :
                       N.elems[i].kind = "Group" =>
                           \A o \in Offsets : NoSecondAlternative(N.elems, i, o)

\* No match is found although the second alternative of the leading group,
\* followed by the rest of the sequence, matches at offset 0.
C5_Witness ==
    /\ pc = "done"
    /\ result.tag = "None"
    /\ tree[1].kind = "Sequence"
    /\ tree[1].elems[1].kind = "Group"
    /\ Len(tree[1].elems[1].alts) >= 2
    /\ check_sequence(<<tree[1].elems[1].alts[2]>> \o Tail(tree[1].elems),
                      text, 0, EmptyMap).tag = "Some"

(***************************************************************************)
(* C6                                                                      *)
(***************************************************************************)
\* Every sub-match of m, and of the sub-matches of m, lies in t where it
\* says it does.
RECURSIVE SubMatchesAreSlices(_, _)
SubMatchesAreSlices(m, t) ==
    \A k \in DOMAIN m.sub_matches :
        /\ IsSliceOf(m.sub_matches[k], t)
        /\ SubMatchesAreSlices(m.sub_matches[k], t)

\* C6: in a match returned by find_match, the matched_text of the sub-match
\* of every group is the slice of the text that starts at the offset the
\* sub-match records.
C6_SubMatchesAreSlices == Found => SubMatchesAreSlices(result.m, text)

\* A repeated group with a group nested in it, whose last capture, not
\* empty, starts after the match does.
C6_Witness ==
    /\ Found
    /\ tree[1].kind = "Multiple"
    /\ tree[1].matcher.kind = "Group"
    /\ \E k \in DOMAIN result.m.sub_matches :
          /\ k /= tree[1].matcher.idx
          /\ result.m.sub_matches[k].offset > result.m.offset
          /\ result.m.sub_matches[k].matched_text /= <<>>

(***************************************************************************)
(* C7                                                                      *)
(***************************************************************************)
\* C7: in a tree that parse returns, every GroupReference(k) has 1 <= k and
\* comes after a Group of index k in source order; any other `\k` is a
\* parse error.
C7_ReferencesHaveGroups ==
    pc = "parsed" =>
        \A n \in 1..Len(Walk(tree[1])) :
            LET N == Walk(tree[1])[n] IN
            N.kind = "GroupReference" =>
                /\ 1 <= N.idx
                /\ \E n2 \in 1..(n - 1) :
                       /\ Walk(tree[1])[n2].kind = "Group"
                       /\ Walk(tree[1])[n2].idx = N.idx

(***************************************************************************)
(* C8                                                                      *)
(***************************************************************************)
\* The number of '(' less the number of ')' among the first i characters.
RECURSIVE Depth(_, _)
Depth(pat, i) ==
    IF i = 0 THEN 0
    ELSE Depth(pat, i - 1) + (IF pat[i] = "(" THEN 1
                              ELSE IF pat[i] = ")" THEN -1 ELSE 0)

\* A pattern without escapes and character classes in which a quantifier
\* starts the pattern or an alternative of a group.
LeadingQuantifier(pat) ==
    /\ \A i \in 1..Len(pat) : pat[i] \notin {"\\", "["}
    /\ \E i \in 1..Len(pat) :
          /\ IsQuantifier(pat[i])
          /\ \/ i = 1
             \/ pat[i - 1] = "("
             \/ pat[i - 1] = "|" /\ Depth(pat, i - 1) > 0

\* The parser is at a quantifier.
AtQuantifier ==
    pc = "parse" /\ peek(parser) /= <<>> /\ IsQuantifier(peek(parser)[1])

\* C8: a quantifier with no atom before it in its sequence, at the start of
\* the pattern or of an alternative of a group, is a parse error; with an
\* atom before it, the last atom of the sequence is replaced by a Multiple
\* that wraps it (`+`, `*` and `?` cannot fail then).
C8_QuantifierNeedsAtom ==
    /\ [][AtQuantifier =>
             IF matchers = <<>> THEN pc' = "parse_error"
             ELSE /\ peek(parser)[1] \in {"+", "*", "?"} => pc' = "parse"
                  /\ pc' = "parse" =>
                       /\ Len(matchers') = Len(matchers)
                       /\ SubSeq(matchers', 1, Len(matchers) - 1)
                              = SubSeq(matchers, 1, Len(matchers) - 1)
                       /\ matchers'[Len(matchers)].kind = "Multiple"
                       /\ matchers'[Len(matchers)].matcher
                              = matchers[Len(matchers)]]_vars
    /\ [](LeadingQuantifier(pattern) => pc /= "parsed")

\* The parser has just replaced the second atom of a sequence by a Multiple.
C8_Witness ==
    /\ pc = "parse"
    /\ index >= 1
    /\ IsQuantifier(pattern[index])
    /\ Len(matchers) >= 2
    /\ matchers[Len(matchers)].kind = "Multiple"

(***************************************************************************)
(* C9                                                                      *)
(***************************************************************************)
\* The number of '(' in a pattern.
NumParens(pat) == Cardinality({i \in 1..Len(pat) : pat[i] = "("})

\* C9: the group indices of a tree that parse returns are 1..n in the order
\* of the opening parentheses, n the number of groups of the pattern.
C9_GroupIndicesDense ==
    pc = "parsed" =>
        LET gi == GroupIdxs(tree[1]) IN
        /\ gi = [i \in 1..Len(gi) |-> i]
        /\ next_group_idx = Len(gi) + 1
        /\ (\A i \in 1..Len(pattern) : pattern[i] \notin {"\\", "["})
               => Len(gi) = NumParens(pattern)

\* Three groups, one of them the second alternative of another.
C9_Witness ==
    /\ pc = "parsed"
    /\ Len(GroupIdxs(tree[1])) >= 3
    /\ \E n \in 1..Len(Walk(tree[1])) :
          LET N == Walk(tree[1])[n] IN
          /\ N.kind = "Group"
          /\ Len(N.alts) >= 2
          /\ N.alts[2].kind = "Group"

(***************************************************************************)
(* C10                                                                     *)
(***************************************************************************)
\* C10: find_match returns, Some or None, for every pattern that parse
\* accepts and every text: it is never in a loop that has no exit.
C10_FindMatchReturns == pc /= "hung"

(***************************************************************************)
(* C11                                                                     *)
(***************************************************************************)
\* parse() returns Err for the pattern p.
ParseFails(p) == ~parse(p, 1).ok

\* C11: when the pattern fails to parse, match_all returns an empty list of
\* matches for every line, without a panic and without an evaluation, so
\* process_stdin and process_files_or_dirs print nothing and find nothing.
C11_ParseErrorPrintsNothing ==
    (ParseFails(pattern) /\ config.entry /= "main") =>
        /\ \A l \in Lines : match_all(l, pattern) = Ok(<<>>)
        /\ stdout = <<>>
        /\ ~found
        /\ pc /= "grep_hung"
        /\ pc = "exit" => \/ exit_code = <<1>>
                          \/ /\ exit_code = <<101>>
                             /\ ~files[file_no + 1].readable

\* Two lines have been processed with a pattern that parse() rejects, and
\* the process has exited.
C11_Witness ==
    /\ ParseFails(pattern)
    /\ config.entry = "process_stdin"
    /\ pc = "exit"
    /\ line_no = 2

(***************************************************************************)
(* C12                                                                     *)
(***************************************************************************)
\* The sequence of the matchers as they are, none merged with its
\* neighbour, each that can have a follow given its next sibling as follow.
new_sequence_unmerged(ms) ==
    Sequence([i \in 1..Len(ms) |->
                 IF i < Len(ms) /\ can_have_follow(ms[i])
                 THEN set_follow(ms[i], ms[i + 1]) ELSE ms[i]])

\* C12: the merging of new_sequence cannot be observed: for the matchers of
\* every pattern and every text, find_match on the sequence new_sequence
\* builds returns what it returns on the sequence of the same matchers with
\* the follows set and nothing merged.
C12_MergingIsUnobservable ==
    Called =>
        find_match(new_sequence(matchers), text)
            = find_match(new_sequence_unmerged(matchers), text)

(***************************************************************************)
(* C13                                                                     *)
(***************************************************************************)
\* match_all returns a list that is not empty for the line l.
LineMatches(l) ==
    LET r == match_all(l, pattern) IN
    IF r = Hang THEN FALSE ELSE r.val /= <<>>

SomeLineMatches ==
    \E i \in 1..Len(files) :
        \E j \in 1..Len(files[i].lines) : LineMatches(files[i].lines[j])

\* The process has exited, not by a panic, and no line of the input is left
\* unread: process_stdin and process_files_or_dirs exit after their loops,
\* main after one read_line.
AllLinesProcessed ==
    /\ pc = "exit"
    /\ exit_code /= <<101>>
    /\ config.entry = "main" =>
           config.extended_regexp /\ Len(files[1].lines) <= 1

\* C13: when the process exits after all lines of the input, from stdin or
\* from every file, have been processed, its exit code is 0 if match_all
\* returned a list that is not empty for at least one line, and 1 if not.
C13_ExitCodeTellsMatch ==
    AllLinesProcessed => exit_code = <<IF SomeLineMatches THEN 0 ELSE 1>>

(***************************************************************************)
(* C14                                                                     *)
(***************************************************************************)
\* The line with each of the matches ms, from the i-th on, between
\* ColorStart and ColorReset, the characters counted from `last`: a match
\* is the characters from character index m.offset, as many as its
\* matched_text has.
RECURSIVE Wrapped(_, _, _, _)
Wrapped(line, ms, i, last) ==
    IF i > Len(ms) THEN SubSeq(line, last + 1, Len(line))
    ELSE LET end == ms[i].offset + Len(ms[i].matched_text) IN
         SubSeq(line, last + 1, ms[i].offset) \o <<ColorStart>>
             \o SubSeq(line, ms[i].offset + 1, end) \o <<ColorReset>>
             \o Wrapped(line, ms, i + 1, end)

\* The loop over the lines is at a line for which match_all returns a list
\* that is not empty.
AtMatchingLine ==
    /\ pc = "loop"
    /\ file_no >= 1
    /\ line_no < Len(files[file_no].lines)
    /\ LineMatches(files[file_no].lines[line_no + 1])

\* C14: for a line and its matches, colorize_line with Always returns the
\* line with exactly each match, counted in characters, between ESC[1;31m
\* and ESC[0m and every other character as it is, also when the line has
\* characters of several bytes; with Auto and Never it returns the line.
C14_ColorWrapsMatches ==
    AtMatchingLine =>
        LET line == files[file_no].lines[line_no + 1]
            ms == match_all(line, pattern).val
        IN /\ colorize_line(line, ms, "Always") = Ok(Wrapped(line, ms, 1, 0))
           /\ colorize_line(line, ms, "Auto") = Ok(line)
           /\ colorize_line(line, ms, "Never") = Ok(line)

(***************************************************************************)
(* C15                                                                     *)
(***************************************************************************)
\* The loop of check_multiple for the Multiple N is at curr_offset with
\* `count` repetitions done: its child matches there, count has reached min
\* and not max, and the follow of N matches the text the child matched.
FollowAcceptsNext(N, curr_offset, count) ==
    LET r == check_match(N.matcher, text, curr_offset, EmptyMap) IN
    /\ N.follow /= <<>>
    /\ count >= N.min
    /\ N.max /= <<>> => count < N.max[1]
    /\ r.tag = "Some"
    /\ matches(N.follow[1], r.m.matched_text) = "Some"

\* The number of repetitions the loop of check_multiple is looked at.
Counts == 0..MaxTextLen

\* C15: when the child of a Multiple matches, count >= min, max is unbound
\* or count < max, a follow is set and it matches the text the child
\* matched, check_multiple does not consume that match and returns what it
\* has accumulated; so does a bounded quantifier such as `x?`.
C15_StopsForFollow ==
    Called =>
        \A n \in 1..Len(Walk(tree[1])) :
            LET N == Walk(tree[1])[n] IN
            N.kind = "Multiple" =>
                \A o \in Offsets : \A count \in Counts :
                    FollowAcceptsNext(N, o, count) =>
                        check_multiple_loop(N.matcher, N.min, N.max, N.follow,
                                            text, o, Match_new(<<>>, o),
                                            EmptyMap, count)
                            = Some(Match_new(<<>>, o))

(***************************************************************************)
(* C16                                                                     *)
(***************************************************************************)
\* The last atom of an alternative of a group: of a sequence its last
\* element, of any other matcher the matcher.
LastAtom(alt) ==
    IF alt.kind = "Sequence" THEN alt.elems[Len(alt.elems)] ELSE alt

\* The follow of the Multiple M is set, and it is the sibling F when the
\* construction of the sequence leaves F as it is.
FollowIs(M, F) ==
    /\ M.follow /= <<>>
    /\ F.kind \notin {"Multiple", "Group"} => M.follow[1] = F

\* X, with the next sibling F, has F as follow where the claim says so.
Wired(X, F) ==
    IF X.kind = "Multiple" THEN FollowIs(X, F)
    ELSE IF X.kind = "Group"
    THEN \A j \in 1..Len(X.alts) :
             LastAtom(X.alts[j]).kind = "Multiple" =>
                 FollowIs(LastAtom(X.alts[j]), F)
    ELSE TRUE

\* C16: in every sequence of a tree that parse returns, a Multiple with a
\* next sibling F has follow = F, and a Group with a next sibling F has
\* follow = F on the last atom of each of its alternatives that is a
\* Multiple: of every alternative, and also of one that is a sequence.
C16_FollowIsWired ==
    pc = "parsed" =>
        \A n \in 1..Len(Walk(tree[1])) :
            LET N == Walk(tree[1])[n] IN
            N.kind = "Sequence" =>
                \A i \in 1..(Len(N.elems) - 1) :
                    Wired(N.elems[i], N.elems[i + 1])

(***************************************************************************)
(* C17                                                                     *)
(***************************************************************************)
\* The characters that parse() takes literally after a backslash.
Escapable == {"\\", "+", "?", ".", "[", "("}

\* One character, no metacharacter, that stands for the escape `\c`.
Escaped(c) ==
    CASE c = "\\" -> "<backslash>" [] c = "+" -> "<plus>"
      [] c = "?" -> "<question>" [] c = "." -> "<dot>"
      [] c = "[" -> "<bracket>" [] c = "(" -> "<paren>"

\* The character an Escaped(c) stands for; any other character is itself.
Unescaped(ch) ==
    IF \E c \in Escapable : Escaped(c) = ch
    THEN CHOOSE c \in Escapable : Escaped(c) = ch
    ELSE ch

\* The pattern p from its i-th character on, with every escape `\c`, c in
\* Escapable, that is read where an atom may appear replaced by Escaped(c).
\* A character class `[...]` and any other pair `\x` are left as they are.
RECURSIVE EscapesAsAtoms(_, _, _)
EscapesAsAtoms(p, i, in_class) ==
    IF i > Len(p) THEN <<>>
    ELSE IF in_class
    THEN <<p[i]>> \o EscapesAsAtoms(p, i + 1, p[i] /= "]")
    ELSE IF p[i] = "\\" /\ i < Len(p)
    THEN (IF p[i + 1] \in Escapable THEN <<Escaped(p[i + 1])>>
          ELSE <<p[i], p[i + 1]>>) \o EscapesAsAtoms(p, i + 2, FALSE)
    ELSE IF p[i] = "[" /\ i < Len(p)
    THEN <<p[i], p[i + 1]>> \o EscapesAsAtoms(p, i + 2, TRUE)
    ELSE <<p[i]>> \o EscapesAsAtoms(p, i + 1, FALSE)

\* The tree m with SingleChar(c) for every SingleChar(Escaped(c)).
RECURSIVE WithEscapedChars(_)
WithEscapedChars(m) ==
    CASE m.kind = "SingleChar" -> new_single_char(Unescaped(m.ch))
      [] m.kind = "Sequence" ->
             Sequence([i \in 1..Len(m.elems) |-> WithEscapedChars(m.elems[i])])
      [] m.kind = "Group" ->
             new_group([i \in 1..Len(m.alts) |-> WithEscapedChars(m.alts[i])],
                       m.idx)
      [] m.kind = "Multiple" ->
             Multiple(WithEscapedChars(m.matcher), m.min, m.max,
                      IF m.follow = <<>> THEN <<>>
                      ELSE <<WithEscapedChars(m.follow[1])>>)
      [] OTHER -> m

\* C17: `\c`, c one of \ + ? . [ (, is parsed as the atom SingleChar(c)
\* wherever an atom may appear, also in the body of a group, where `\(`
\* does not count as an opening parenthesis: the pattern is accepted iff it
\* is accepted with an ordinary character in the place of each escape, and
\* the tree is the same but for SingleChar(c) in the place of that character.
C17_EscapesAreAtoms ==
    pc \in {"parsed", "parse_error"} =>
        LET ref == parse(EscapesAsAtoms(pattern, 1, FALSE), 1) IN
        /\ pc = "parsed" <=> ref.ok
        /\ pc = "parsed" => tree[1] = WithEscapedChars(ref.matcher)

(***************************************************************************)
(* C18                                                                     *)
(***************************************************************************)
\* min <= max in every Multiple of the tree m whose max is bound.
MinAtMostMax(m) ==
    \A n \in 1..Len(Walk(m)) :
        LET N == Walk(m)[n] IN
        (N.kind = "Multiple" /\ N.max /= <<>>) => N.min <= N.max[1]

\* M is the Multiple the quantifier ch stands for; n is the number between
\* the braces of `{n}`.
QuantifierIs(ch, M, n) ==
    /\ M.kind = "Multiple"
    /\ ch = "+" => (M.min = 1 /\ M.max = <<>>)
    /\ ch = "*" => (M.min = 0 /\ M.max = <<>>)
    /\ ch = "?" => (M.min = 0 /\ M.max = <<1>>)
    /\ ch = "{" => (M.min = n /\ M.max = <<n>>)

\* C18: every Multiple of a tree that parse returns has min <= max when its
\* max is bound, merged ones included; and a quantifier that parse accepts
\* makes a Multiple with (min, max) = (1, None) for `+`, (0, None) for `*`,
\* (0, Some(1)) for `?` and (n, Some(n)) for `{n}`.
C18_MinAtMostMax ==
    /\ [](pc = "parsed" => MinAtMostMax(tree[1]))
    /\ [][(AtQuantifier /\ pc' = "parse") =>
             QuantifierIs(peek(parser)[1], matchers'[Len(matchers')],
                          parse_usize(SubSeq(pattern, index + 2, index' - 1)))
         ]_vars

\* A tree with a Multiple that only merging makes: its max is bound and
\* greater than its min, and its min is not 0.
C18_Witness ==
    /\ pc = "parsed"
    /\ \E n \in 1..Len(Walk(tree[1])) :
          LET N == Walk(tree[1])[n] IN
          /\ N.kind = "Multiple"
          /\ N.max /= <<>>
          /\ 1 <= N.min
          /\ N.min < N.max[1]

(***************************************************************************)
(* C19                                                                     *)
(***************************************************************************)
\* The reference matcher: the offsets at which a match of m that starts at
\* offset o of t can end, every choice of an alternative and of a number
\* of repetitions tried.  Offsets are in characters; follows are not read.
RECURSIVE RefEnds(_, _, _)
RECURSIVE RefSequence(_, _, _, _)
RECURSIVE RefRepeat(_, _, _, _)

\* After the elements of elems from the i-th on, started at the offsets S.
RefSequence(elems, i, t, S) ==
    IF i > Len(elems) THEN S
    ELSE RefSequence(elems, i + 1, t,
                     UNION {RefEnds(elems[i], t, s) : s \in S})

\* After k repetitions of m, started at the offsets S.
RefRepeat(m, t, S, k) ==
    IF k = 0 THEN S
    ELSE RefRepeat(m, t, UNION {RefEnds(m, t, s) : s \in S}, k - 1)

RefEnds(m, t, o) ==
    CASE m.kind = "SingleChar" ->
             IF o < Len(t) /\ t[o + 1] = m.ch THEN {o + 1} ELSE {}
      [] m.kind = "SingleCharBranch" ->
             IF o < Len(t)
                /\ (\E i \in 1..Len(m.chars) : m.chars[i] = t[o + 1])
                       /= m.negated
             THEN {o + 1} ELSE {}
      [] m.kind = "Wildcard" -> IF o < Len(t) THEN {o + 1} ELSE {}
      [] m.kind = "StartMatcher" -> IF o = 0 THEN {o} ELSE {}
      [] m.kind = "EndMatcher" -> IF o = Len(t) THEN {o} ELSE {}
      [] m.kind = "Sequence" -> RefSequence(m.elems, 1, t, {o})
      [] m.kind = "Group" ->
             UNION {RefEnds(m.alts[j], t, o) : j \in 1..Len(m.alts)}
      [] m.kind = "Multiple" ->
             LET most == IF m.max = <<>> THEN m.min + Len(t) ELSE m.max[1] IN
             UNION {RefRepeat(m.matcher, t, {o}, k) : k \in m.min..most}
      [] OTHER -> {}

\* Some substring of t is in the language of m.
RefMatches(m, t) == \E o \in 0..Len(t) : RefEnds(m, t, o) /= {}

NoGroupReference(m) ==
    \A n \in 1..Len(Walk(m)) : Walk(m)[n].kind /= "GroupReference"

\* C19: for a pattern without back-references that parse accepts and a
\* text, find_match finds a match iff some substring of the text, with `^`
\* at its start only and `$` at its end only, is in the language of the
\* pattern: iff a matcher that tries every alternative and every number of
\* repetitions finds one.
C19_SameAnswerAsReference ==
    (pc = "done" /\ NoGroupReference(tree[1])) =>
        (result.tag = "Some" <=> RefMatches(tree[1], text))

====
